---- MODULE Spec2Model ----
(***************************************************************************)
(* Model of package ffmpeg (src/ffmpeg/ffmpeg.go): the Transcoder's        *)
(* fluent configuration calls, Start (validation, metadata probe,          *)
(* argument assembly, process launch), the progress scanner goroutine,     *)
(* the completion goroutine, the child process and the caller receiving    *)
(* from the unbuffered progress channel.                                   *)
(***************************************************************************)
EXTENDS Integers, Sequences, FiniteSets, TLC

\* ---------------------------------------------------------------- bounds
MaxOutputs == 2
MaxOptions == 3
MaxLines == 2
MaxStream == 7
MaxCalls == 4

\* ------------------------------------------------------- input domains
BinPaths(name) == {"", name}
InputValues == {"", "in.mp4"}
\* Output(arg): the empty locator, or the next distinct file name
OutputNames == <<"out1.mp4", "out2.mp4", "out3.mp4", "out4.mp4">>
OutputName(k) == OutputNames[k]
EmptyOutput == ""
\* transcoder.Options values, given by their GetStrArguments() tokens
OptionValues == {<<"-a">>, <<"-b", "-c">>}
GlobalValues == {<<>>, <<"-y">>}
Callbacks == {"nil", "ok", "fail"}

\* ------------------------------------------------------------ variables
VARIABLES
    config,          \* *Config given to New
    input,           \* t.input
    output,          \* t.output
    options,         \* t.options (each element is its token list)
    metadata,        \* t.metadata: "none" or "probed"
    commandContext,  \* t.commandContext: "nil" or "ctx"
    ctxDone,         \* the supplied context has been cancelled
    pc,              \* position of the caller / of Start
    opts,            \* Start's parameter, as its token list
    args,            \* Start's local args
    err,             \* Start's local err, shared with the completion goroutine
    ret,             \* what Start returned: [out, err]
    spawned,         \* binaries spawned so far, in order
    procState,       \* transcoding process: "none", "running", "exited"
    exitErr,         \* the process exited unsuccessfully (or was killed)
    killed,          \* the process was killed by the context
    written,         \* lines the process wrote to stderr (TRUE = qualifying)
    nread,           \* lines the scanner has taken out of the stderr pipe
    pipeClosed,      \* read end of the stderr pipe closed
    spc,             \* scanner goroutine: "idle", "read", "send", "done"
    cur,             \* index of the line the scanner is sending
    wpc,             \* completion goroutine: "idle", "wait", "senderr", "close", "done"
    outClosed,       \* channel out has been closed
    received,        \* events the caller has received from out
    crashed,         \* the program panicked
    inputPipe,       \* [w |-> t.inputPipeWriter, r |-> t.inputPipeReader]
    outputPipe,      \* [w |-> t.outputPipeWriter, r |-> t.outputPipeReader]
    calls,           \* configuration calls made so far (history)
    stream,          \* progress: the bytes of the diagnostic stream
    spos,            \* progress: bytes of stream read so far
    sbuf,            \* bufio.Scanner: buffered data buf[start:end]
    sstart,          \* bufio.Scanner: start
    slen,            \* bufio.Scanner: len(buf)
    seof,            \* bufio.Scanner: the reader has returned io.EOF
    tokens,          \* lines returned by scanner.Text(), in order
    events,          \* Progress values sent on out, in order
    scpc,            \* progress: "idle", "scan", "done"
    errb,            \* GetMetadata: lines of the probe's diagnostic output
    mline,           \* GetMetadata: index of the line ReadLine returns next
    prefix,          \* GetMetadata: local prefix
    hasMetadata,     \* GetMetadata: local hasMetadata
    infos,           \* GetMetadata: metadata.Infos
    mpc              \* GetMetadata's text scan: "idle", "scan", "done"

vars == <<config, input, output, options, metadata, commandContext, ctxDone,
          pc, opts, args, err, ret, spawned, procState, exitErr, killed,
          written, nread, pipeClosed, spc, cur, wpc, outClosed, received,
          crashed, inputPipe, outputPipe, calls, stream, spos, sbuf, sstart,
          slen, seof, tokens, events, scpc, errb, mline, prefix,
          hasMetadata, infos, mpc>>

cfgVars == <<config, input, output, options, commandContext>>
startVars == <<pc, opts, args, err, ret>>
procVars == <<procState, exitErr, killed, written>>
taskVars == <<nread, pipeClosed, spc, cur, wpc, outClosed, received, crashed>>
pipeVars == <<inputPipe, outputPipe>>
scanVars == <<stream, spos, sbuf, sstart, slen, seof, tokens, events, scpc>>
mainVars == <<cfgVars, metadata, ctxDone, startVars, spawned, procVars,
              taskVars, pipeVars>>
\* variables of the other specifications, untouched by the calls below
metaVars == <<errb, mline, prefix, hasMetadata, infos, mpc>>
auxVars == <<calls, scanVars, metaVars>>

\* ---------------------------------------------------------- error values
ErrNoFfmpeg == "ffmpeg binary path not found"
ErrNoInput == "missing input option"
ErrNoOutput == "missing output option"
ErrMismatch == "number of options and output files does not match"
ErrEmptyOutput == "output at index %d is an empty string"
ErrNoFfprobe == "ffprobe binary not found"
ErrProbeRun == "error executing ffprobe"
ErrProbeJSON == "json unmarshal error"
ErrOnMetadata == "OnMetadata error"
ErrStderrPipe == "failed getting transcoding progress"
ErrLaunch == "failed starting transcoding"
ErrExec == "failed to transcoding"

ConfigErrors == {ErrNoFfmpeg, ErrNoInput, ErrNoOutput, ErrMismatch, ErrEmptyOutput}

\* progress mode decided by ProgressEnabled alone
ProgressMode_IgnoreVerbose == config.ProgressEnabled

ProgressMode == config.ProgressEnabled /\ ~config.Verbose

\* cmd.Stderr of the transcoding process (lines 107-117)
Stderr ==
    IF config.Verbose THEN "os.Stdout"
    ELSE IF ProgressMode THEN "pipe"
    ELSE "nil"

\* ------------------------------------------------------------- validate
\* validate without the output/option-set count check of line 218
validate_NoCountCheck ==
    IF config.FfmpegBinPath = "" THEN ErrNoFfmpeg
    ELSE IF input = "" THEN ErrNoInput
    ELSE IF Len(output) = 0 THEN ErrNoOutput
    ELSE IF \E index \in 1..Len(output) : output[index] = EmptyOutput
         THEN ErrEmptyOutput
    ELSE "nil"

\* validate without the empty-output loop of lines 222-226
validate_NoEmptyOutputCheck ==
    IF config.FfmpegBinPath = "" THEN ErrNoFfmpeg
    ELSE IF input = "" THEN ErrNoInput
    ELSE IF Len(output) = 0 THEN ErrNoOutput
    ELSE IF Len(output) > Len(options) /\ Len(output) # 1 THEN ErrMismatch
    ELSE "nil"

\* validate with the count check of line 218 off by one
validate_CountOffByOne ==
    IF config.FfmpegBinPath = "" THEN ErrNoFfmpeg
    ELSE IF input = "" THEN ErrNoInput
    ELSE IF Len(output) = 0 THEN ErrNoOutput
    ELSE IF Len(output) > Len(options) + 1 /\ Len(output) # 1 THEN ErrMismatch
    ELSE IF \E index \in 1..Len(output) : output[index] = EmptyOutput
         THEN ErrEmptyOutput
    ELSE "nil"

validate ==
    IF config.FfmpegBinPath = "" THEN ErrNoFfmpeg
    ELSE IF input = "" THEN ErrNoInput
    ELSE IF Len(output) = 0 THEN ErrNoOutput
    ELSE IF Len(output) > Len(options) /\ Len(output) # 1 THEN ErrMismatch
    ELSE IF \E index \in 1..Len(output) : output[index] = EmptyOutput
         THEN ErrEmptyOutput
    ELSE "nil"

\* ------------------------------------------------------ argument builder
RECURSIVE Flush(_, _, _)
\* for i := index; i < len(t.options); i++ { args = append(args, arguments[i]...) }
Flush(arguments, i, acc) ==
    IF i > Len(arguments) THEN acc
    ELSE Flush(arguments, i + 1, acc \o arguments[i])

RECURSIVE OutputLoop(_, _, _, _)
\* for index, out := range t.output { ... }; indices are 1-based here.
\* The result is [panic |-> TRUE] when arguments[index] is out of range.
OutputLoop(outs, arguments, index, acc) ==
    IF index > Len(outs) THEN [panic |-> FALSE, args |-> acc]
    ELSE IF index = Len(outs) /\ Len(outs) < Len(arguments)
         THEN OutputLoop(outs, arguments, index + 1,
                         Append(Flush(arguments, index, acc), outs[index]))
    ELSE IF index > Len(arguments) THEN [panic |-> TRUE, args |-> acc]
    ELSE OutputLoop(outs, arguments, index + 1,
                    Append(acc \o arguments[index], outs[index]))

RECURSIVE OutputLoop_NoFlush(_, _, _, _)
\* the output loop without the flush of surplus option-sets (lines 80-83)
OutputLoop_NoFlush(outs, arguments, index, acc) ==
    IF index > Len(outs) THEN [panic |-> FALSE, args |-> acc]
    ELSE IF index > Len(arguments) THEN [panic |-> TRUE, args |-> acc]
    ELSE OutputLoop_NoFlush(outs, arguments, index + 1,
                            Append(acc \o arguments[index], outs[index]))

BuildArgs_NoFlush(in, globals, outs, optionSets) ==
    LET base == <<"-i", in>> \o globals
    IN  IF Len(outs) = 1 /\ Len(optionSets) = 0
        THEN [panic |-> FALSE, args |-> Append(base, outs[1])]
        ELSE OutputLoop_NoFlush(outs, optionSets, 1, base)

\* the builder without the single-output special case (lines 69-71)
BuildArgs_NoSingleCase(in, globals, outs, optionSets) ==
    OutputLoop(outs, optionSets, 1, <<"-i", in>> \o globals)

BuildArgs(in, globals, outs, optionSets) ==
    LET base == <<"-i", in>> \o globals
    IN  IF Len(outs) = 1 /\ Len(optionSets) = 0
        THEN [panic |-> FALSE, args |-> Append(base, outs[1])]
        ELSE OutputLoop(outs, optionSets, 1, base)

\* ---------------------------------------------------------------- pipes
\* a pipe handle is "nil", "open" or "closed"
NoPipe == [w |-> "nil", r |-> "nil"]
Close(h) == IF h = "nil" THEN "nil" ELSE "closed"

\* closePipes without the output writer
closePipes_SkipOutput ==
    /\ inputPipe' = [inputPipe EXCEPT !.r = Close(@)]
    /\ UNCHANGED outputPipe

\* closePipes (lines 395-404), deferred at line 46
closePipes ==
    /\ inputPipe' = [inputPipe EXCEPT !.r = Close(@)]
    /\ outputPipe' = [outputPipe EXCEPT !.w = Close(@)]

\* ----------------------------------------------------------------- Init
ScannerIdle ==
    /\ stream = <<>>
    /\ spos = 0
    /\ sbuf = <<>>
    /\ sstart = 0
    /\ slen = 0
    /\ seof = FALSE
    /\ tokens = <<>>
    /\ events = <<>>
    /\ scpc = "idle"

MetaIdle ==
    /\ errb = <<>>
    /\ mline = 0
    /\ prefix = <<>>
    /\ hasMetadata = FALSE
    /\ infos = {}
    /\ mpc = "idle"

\* New(cfg)
InitTranscoder ==
    /\ config \in [FfmpegBinPath : BinPaths("ffmpeg"),
                   FfprobeBinPath : BinPaths("ffprobe"),
                   ProgressEnabled : BOOLEAN,
                   Verbose : BOOLEAN,
                   OnMetadata : Callbacks]
    /\ input = ""
    /\ output = <<>>
    /\ options = <<>>
    /\ metadata = "none"
    /\ commandContext = "nil"
    /\ ctxDone = FALSE
    /\ pc = "config"
    /\ opts = <<>>
    /\ args = <<>>
    /\ err = "nil"
    /\ ret = [out |-> "none", err |-> "none"]
    /\ spawned = <<>>
    /\ procState = "none"
    /\ exitErr = FALSE
    /\ killed = FALSE
    /\ written = <<>>
    /\ nread = 0
    /\ pipeClosed = FALSE
    /\ spc = "idle"
    /\ cur = 0
    /\ wpc = "idle"
    /\ outClosed = FALSE
    /\ received = <<>>
    /\ crashed = FALSE
    /\ inputPipe = NoPipe
    /\ outputPipe = NoPipe

Init ==
    /\ InitTranscoder
    /\ calls = <<>>
    /\ ScannerIdle
    /\ MetaIdle

\* --------------------------------------------------- configuration calls
\* Input, Output, WithOptions and WithAdditionalOptions leave the history
\* of calls to the specification that uses them: it is recorded (Logged) or
\* not (NotLogged).
NotLogged == UNCHANGED calls

Logged(name, arg) ==
    /\ Len(calls) < MaxCalls
    /\ calls' = Append(calls, [op |-> name, arg |-> arg])

Input(arg) ==
    /\ pc = "config"
    /\ input' = arg
    /\ UNCHANGED <<config, output, options, metadata, commandContext, ctxDone,
                   startVars, spawned, procVars, taskVars>>
    /\ UNCHANGED <<pipeVars, scanVars, metaVars>>

Output(arg) ==
    /\ pc = "config"
    /\ Len(output) < MaxOutputs
    /\ output' = Append(output, arg)
    /\ UNCHANGED <<config, input, options, metadata, commandContext, ctxDone,
                   startVars, spawned, procVars, taskVars>>
    /\ UNCHANGED <<pipeVars, scanVars, metaVars>>

\* WithOptions keeping the option-sets given before
WithOptions_Append(o) ==
    /\ pc = "config"
    /\ options' = Append(options, o)
    /\ UNCHANGED <<config, input, output, metadata, commandContext, ctxDone,
                   startVars, spawned, procVars, taskVars>>
    /\ UNCHANGED <<pipeVars, scanVars, metaVars>>

WithOptions(o) ==
    /\ pc = "config"
    /\ options' = <<o>>
    /\ UNCHANGED <<config, input, output, metadata, commandContext, ctxDone,
                   startVars, spawned, procVars, taskVars>>
    /\ UNCHANGED <<pipeVars, scanVars, metaVars>>

WithAdditionalOptions(o) ==
    /\ pc = "config"
    /\ Len(options) < MaxOptions
    /\ options' = Append(options, o)
    /\ UNCHANGED <<config, input, output, metadata, commandContext, ctxDone,
                   startVars, spawned, procVars, taskVars>>
    /\ UNCHANGED <<pipeVars, scanVars, metaVars>>

WithContext ==
    /\ pc = "config"
    /\ commandContext = "nil"
    /\ commandContext' = "ctx"
    /\ UNCHANGED <<config, input, output, options, metadata, ctxDone,
                   startVars, spawned, procVars, taskVars>>
    /\ UNCHANGED <<pipeVars, auxVars>>

\* The owner of the supplied context cancels it; a running transcoding
\* process started with exec.CommandContext is killed.
CtxCancel ==
    /\ ~crashed
    /\ commandContext = "ctx"
    /\ ~ctxDone
    /\ ctxDone' = TRUE
    /\ IF procState = "running"
       THEN /\ procState' = "exited"
            /\ exitErr' = TRUE
            /\ killed' = TRUE
       ELSE UNCHANGED <<procState, exitErr, killed>>
    /\ UNCHANGED <<cfgVars, metadata, startVars, spawned, written, taskVars>>
    /\ UNCHANGED <<pipeVars, auxVars>>

\* ------------------------------------------------------------- Start
Return(o, e) ==
    /\ ret' = [out |-> o, err |-> e]
    /\ pc' = "returned"
    /\ closePipes

\* Start is called with opts; validate (lines 48-51)
StartValidate(o) ==
    /\ pc = "config"
    /\ opts' = o
    /\ IF validate # "nil"
       THEN Return("nil", validate)
       ELSE /\ pc' = "probe"
            /\ UNCHANGED <<ret, pipeVars>>
    /\ UNCHANGED <<cfgVars, metadata, ctxDone, args, err, spawned, procVars,
                   taskVars>>
    /\ UNCHANGED auxVars

\* GetMetadata caching its result even when the probe failed
StartGetMetadata_CacheOnFailure ==
    /\ pc = "probe"
    /\ IF config.FfprobeBinPath = ""
       THEN /\ Return("nil", ErrNoFfprobe)
            /\ err' = ErrNoFfprobe
            /\ UNCHANGED <<metadata, spawned>>
       ELSE \E outcome \in IF ctxDone THEN {ErrProbeRun}
                           ELSE {"nil", ErrProbeRun, ErrProbeJSON} :
              /\ spawned' = Append(spawned, "ffprobe")
              /\ err' = outcome
              /\ metadata' = "probed"
              /\ IF outcome = "nil"
                 THEN /\ pc' = "onmeta"
                      /\ UNCHANGED <<ret, pipeVars>>
                 ELSE Return("nil", outcome)
    /\ UNCHANGED <<cfgVars, ctxDone, opts, args, procVars, taskVars>>
    /\ UNCHANGED auxVars

\* metadata, err := t.GetMetadata() (lines 53-57, 232-307)
StartGetMetadata ==
    /\ pc = "probe"
    /\ IF config.FfprobeBinPath = ""
       THEN /\ Return("nil", ErrNoFfprobe)
            /\ err' = ErrNoFfprobe
            /\ UNCHANGED <<metadata, spawned>>
       ELSE \E outcome \in IF ctxDone THEN {ErrProbeRun}
                           ELSE {"nil", ErrProbeRun, ErrProbeJSON} :
              /\ spawned' = Append(spawned, "ffprobe")
              /\ err' = outcome
              /\ IF outcome = "nil"
                 THEN /\ metadata' = "probed"
                      /\ pc' = "onmeta"
                      /\ UNCHANGED <<ret, pipeVars>>
                 ELSE /\ Return("nil", outcome)
                      /\ UNCHANGED metadata
    /\ UNCHANGED <<cfgVars, ctxDone, opts, args, procVars, taskVars>>
    /\ UNCHANGED auxVars

\* Start going on although the OnMetadata callback failed
StartOnMetadata_IgnoreError ==
    /\ pc = "onmeta"
    /\ pc' = "build"
    /\ UNCHANGED <<cfgVars, metadata, ctxDone, opts, args, err, ret, spawned,
                   procVars, taskVars, pipeVars, auxVars>>

\* t.config.OnMetadata(metadata) (lines 58-62)
StartOnMetadata ==
    /\ pc = "onmeta"
    /\ IF config.OnMetadata = "fail"
       THEN Return("nil", ErrOnMetadata)
       ELSE /\ pc' = "build"
            /\ UNCHANGED <<ret, pipeVars>>
    /\ UNCHANGED <<cfgVars, metadata, ctxDone, opts, args, err, spawned,
                   procVars, taskVars>>
    /\ UNCHANGED auxVars

\* argument assembly (lines 64-92)
StartBuildArgs ==
    /\ pc = "build"
    /\ LET b == BuildArgs(input, opts, output, options)
       IN  IF b.panic
           THEN /\ crashed' = TRUE
                /\ pc' = "panic"
                /\ closePipes
                /\ UNCHANGED args
           ELSE /\ args' = b.args
                /\ pc' = "launch"
                /\ UNCHANGED <<crashed, pipeVars>>
    /\ UNCHANGED <<cfgVars, metadata, ctxDone, opts, err, ret, spawned,
                   procVars, nread, pipeClosed, spc, cur, wpc, outClosed,
                   received>>
    /\ UNCHANGED auxVars

\* command construction, stream wiring, cmd.Start(), make(chan), go ... (lines 94-140)
StartLaunch ==
    /\ pc = "launch"
    /\ \E outcome \in (IF ctxDone THEN {} ELSE {"nil"}) \cup {ErrLaunch}
                      \cup (IF ProgressMode THEN {ErrStderrPipe} ELSE {}) :
         IF outcome # "nil"
         THEN /\ Return("nil", outcome)
              /\ err' = outcome
              /\ UNCHANGED <<spawned, procState, spc, wpc>>
         ELSE /\ spawned' = Append(spawned, "ffmpeg")
              /\ procState' = "running"
              /\ err' = "nil"
              /\ UNCHANGED <<ret, pipeVars>>
              /\ IF ProgressMode
                 THEN /\ spc' = "read"
                      /\ wpc' = "wait"
                      /\ pc' = "return"
                 ELSE /\ pc' = "wait"
                      /\ UNCHANGED <<spc, wpc>>
    /\ UNCHANGED <<cfgVars, metadata, ctxDone, opts, args, exitErr, killed,
                   written, nread, pipeClosed, cur, outClosed, received,
                   crashed>>
    /\ UNCHANGED auxVars

\* progress mode inactive: err = cmd.Wait(); return (lines 140-147)
StartWait ==
    /\ pc = "wait"
    /\ procState = "exited"
    /\ IF exitErr
       THEN /\ err' = ErrExec
            /\ Return("nil", ErrExec)
       ELSE /\ err' = "nil"
            /\ Return("chan", "nil")
    /\ UNCHANGED <<cfgVars, metadata, ctxDone, opts, args, spawned, procVars,
                   taskVars>>
    /\ UNCHANGED auxVars

\* progress mode: return out, err (line 147). err is also written by the
\* completion goroutine without synchronisation: the read yields the value
\* written, or the value before the write.
StartReturn ==
    /\ pc = "return"
    /\ ~crashed
    /\ \E e \in {err, "nil"} : Return("chan", e)
    /\ UNCHANGED <<cfgVars, metadata, ctxDone, opts, args, err, spawned,
                   procVars, taskVars>>
    /\ UNCHANGED auxVars

\* ------------------------------------------------ transcoding process
ProcWrite(q) ==
    /\ ~crashed
    /\ procState = "running"
    /\ Len(written) < MaxLines
    /\ written' = Append(written, q)
    /\ UNCHANGED <<cfgVars, metadata, ctxDone, startVars, spawned, procState,
                   exitErr, killed, taskVars>>
    /\ UNCHANGED <<pipeVars, auxVars>>

ProcExit(e) ==
    /\ ~crashed
    /\ procState = "running"
    /\ procState' = "exited"
    /\ exitErr' = e
    /\ UNCHANGED <<cfgVars, metadata, ctxDone, startVars, spawned, killed,
                   written, taskVars>>
    /\ UNCHANGED <<pipeVars, auxVars>>

\* -------------------------------------------- scanner goroutine (progress)
\* scanner.Scan() and the line filter (lines 339-343)
ScanRead ==
    /\ ~crashed
    /\ spc = "read"
    /\ IF pipeClosed
       THEN \* read on the closed pipe fails: Scan returns false
            /\ spc' = "done"
            /\ UNCHANGED <<nread, cur>>
       ELSE IF nread < Len(written)
       THEN /\ nread' = nread + 1
            /\ IF written[nread + 1]
               THEN /\ cur' = nread + 1
                    /\ spc' = "send"
               ELSE UNCHANGED <<cur, spc>>
       ELSE \* empty pipe: end-of-data once the process has exited
            /\ procState = "exited"
            /\ spc' = "done"
            /\ UNCHANGED <<nread, cur>>
    /\ UNCHANGED <<cfgVars, metadata, ctxDone, startVars, spawned, procVars,
                   pipeClosed, wpc, outClosed, received, crashed>>
    /\ UNCHANGED <<pipeVars, auxVars>>

\* out <- *Progress (line 390), received by the caller
ScanSend ==
    /\ ~crashed
    /\ spc = "send"
    /\ pc = "returned"
    /\ ~outClosed
    /\ received' = Append(received, [kind |-> "progress", line |-> cur])
    /\ spc' = "read"
    /\ UNCHANGED <<cfgVars, metadata, ctxDone, startVars, spawned, procVars,
                   nread, pipeClosed, cur, wpc, outClosed, crashed>>
    /\ UNCHANGED <<pipeVars, auxVars>>

\* out <- *Progress on the closed channel: panic
ScanSendClosed ==
    /\ ~crashed
    /\ spc = "send"
    /\ outClosed
    /\ crashed' = TRUE
    /\ UNCHANGED <<cfgVars, metadata, ctxDone, startVars, spawned, procVars,
                   nread, pipeClosed, spc, cur, wpc, outClosed, received>>
    /\ UNCHANGED <<pipeVars, auxVars>>

\* ------------------------------------------ completion goroutine (progress)
\* err = cmd.Wait() (lines 133-136); Wait closes the stderr pipe's read end
WaitExit ==
    /\ ~crashed
    /\ wpc = "wait"
    /\ procState = "exited"
    /\ pipeClosed' = TRUE
    /\ IF exitErr
       THEN /\ err' = ErrExec
            /\ wpc' = "senderr"
       ELSE /\ err' = "nil"
            /\ wpc' = "close"
    /\ UNCHANGED <<cfgVars, metadata, ctxDone, pc, opts, args, ret, spawned,
                   procVars, nread, spc, cur, outClosed, received, crashed>>
    /\ UNCHANGED <<pipeVars, auxVars>>

\* out <- &Progress{Error: err} (line 137), received by the caller
WaitSendErr ==
    /\ ~crashed
    /\ wpc = "senderr"
    /\ pc = "returned"
    /\ received' = Append(received, [kind |-> "error", line |-> 0])
    /\ wpc' = "close"
    /\ UNCHANGED <<cfgVars, metadata, ctxDone, startVars, spawned, procVars,
                   nread, pipeClosed, spc, cur, outClosed, crashed>>
    /\ UNCHANGED <<pipeVars, auxVars>>

\* defer close(out) (line 132)
WaitClose ==
    /\ ~crashed
    /\ wpc = "close"
    /\ outClosed' = TRUE
    /\ wpc' = "done"
    /\ UNCHANGED <<cfgVars, metadata, ctxDone, startVars, spawned, procVars,
                   nread, pipeClosed, spc, cur, received, crashed>>
    /\ UNCHANGED <<pipeVars, auxVars>>

\* ----------------------------------------------------------------- Next
Next ==
    \/ \E arg \in InputValues : Input(arg) /\ NotLogged
    \/ \E arg \in {EmptyOutput, OutputName(Len(output) + 1)} : Output(arg) /\ NotLogged
    \/ \E o \in OptionValues : WithOptions(o) /\ NotLogged
    \/ \E o \in OptionValues : WithAdditionalOptions(o) /\ NotLogged
    \/ WithContext
    \/ CtxCancel
    \/ \E o \in GlobalValues : StartValidate(o)
    \/ StartGetMetadata
    \/ StartOnMetadata
    \/ StartBuildArgs
    \/ StartLaunch
    \/ StartWait
    \/ StartReturn
    \/ \E q \in BOOLEAN : ProcWrite(q)
    \/ \E e \in BOOLEAN : ProcExit(e)
    \/ ScanRead
    \/ ScanSend
    \/ ScanSendClosed
    \/ WaitExit
    \/ WaitSendErr
    \/ WaitClose

Spec == Init /\ [][Next]_vars

\* ------------------------------------------------- Start with pipes attached
\* InputPipe (lines 162-169): attaches only while no input is set
InputPipe ==
    /\ pc = "config"
    /\ IF Len(input) = 0
       THEN inputPipe' = [w |-> "open", r |-> "open"]
       ELSE UNCHANGED inputPipe
    /\ UNCHANGED <<cfgVars, metadata, ctxDone, startVars, spawned, procVars,
                   taskVars, outputPipe, auxVars>>

\* OutputPipe (lines 171-178): attaches only while no output is set
OutputPipe ==
    /\ pc = "config"
    /\ IF Len(output) = 0
       THEN outputPipe' = [w |-> "open", r |-> "open"]
       ELSE UNCHANGED outputPipe
    /\ UNCHANGED <<cfgVars, metadata, ctxDone, startVars, spawned, procVars,
                   taskVars, inputPipe, auxVars>>

\* Every call and every exit path of Start, for a process that writes
\* nothing to its diagnostic stream (closePipes does not depend on it).
NextPipes ==
    \/ InputPipe
    \/ OutputPipe
    \/ \E arg \in InputValues : Input(arg) /\ NotLogged
    \/ \E arg \in {EmptyOutput, OutputName(Len(output) + 1)} : Output(arg) /\ NotLogged
    \/ \E o \in OptionValues : WithOptions(o) /\ NotLogged
    \/ \E o \in OptionValues : WithAdditionalOptions(o) /\ NotLogged
    \/ WithContext
    \/ CtxCancel
    \/ \E o \in GlobalValues : StartValidate(o)
    \/ StartGetMetadata
    \/ StartOnMetadata
    \/ StartBuildArgs
    \/ StartLaunch
    \/ StartWait
    \/ StartReturn
    \/ \E e \in BOOLEAN : ProcExit(e)
    \/ ScanRead
    \/ WaitExit
    \/ WaitSendErr
    \/ WaitClose

SpecPipes == Init /\ [][NextPipes]_vars

\* ------------------------------------------------ progress on a byte stream
\* The diagnostic stream is a sequence of pieces: the two line terminators
\* and the two substrings the line filter looks for.
LF == "\n"
CR == "\r"
Pieces == {LF, CR, "time=", "bitrate="}
BufSize == 2
MaxScanTokenSize == 65536
Min(a, b) == IF a < b THEN a ELSE b

RECURSIVE StreamsOfLen(_)
StreamsOfLen(n) ==
    IF n = 0 THEN {<<>>}
    ELSE {Append(st, p) : st \in StreamsOfLen(n - 1), p \in Pieces}
Streams == UNION {StreamsOfLen(n) : n \in 0..MaxStream}

\* bytes.IndexByte, 1-based; 0 when c does not occur
IndexByte(data, c) ==
    IF \E i \in 1..Len(data) : data[i] = c
    THEN CHOOSE i \in 1..Len(data) :
            data[i] = c /\ \A j \in 1..(i - 1) : data[j] # c
    ELSE 0

\* the split function (lines 314-331); some = FALSE is the nil token
split(data, atEOF) ==
    IF atEOF /\ Len(data) = 0
    THEN [advance |-> 0, some |-> FALSE, token |-> <<>>]
    ELSE IF IndexByte(data, LF) > 0
    THEN [advance |-> IndexByte(data, LF), some |-> TRUE,
          token |-> SubSeq(data, 1, IndexByte(data, LF) - 1)]
    ELSE IF IndexByte(data, CR) > 0
    THEN [advance |-> IndexByte(data, CR), some |-> TRUE,
          token |-> SubSeq(data, 1, IndexByte(data, CR) - 1)]
    ELSE IF atEOF
    THEN [advance |-> Len(data), some |-> TRUE, token |-> data]
    ELSE [advance |-> 0, some |-> FALSE, token |-> <<>>]

\* strings.Contains for one of the pieces
Contains(line, piece) == \E i \in 1..Len(line) : line[i] = piece

\* the line filter (line 343)
Qualifies(line) == Contains(line, "time=") /\ Contains(line, "bitrate=")

\* scanner.Scan finds a token in the buffered data (line 339), then the loop
\* body filters the line and sends the event (lines 340-391)
ScanToken ==
    /\ scpc = "scan"
    /\ Len(sbuf) > 0 \/ seof
    /\ LET r == split(sbuf, seof)
       IN  /\ r.some
           /\ sbuf' = SubSeq(sbuf, r.advance + 1, Len(sbuf))
           /\ sstart' = sstart + r.advance
           /\ tokens' = Append(tokens, r.token)
           /\ events' = IF Qualifies(r.token)
                         THEN Append(events, [line |-> r.token])
                         ELSE events
    /\ UNCHANGED <<stream, spos, slen, seof, scpc>>
    /\ UNCHANGED <<mainVars, calls, metaVars>>

\* no token in the buffered data: the scanner has to read
NeedsRead ==
    /\ scpc = "scan"
    /\ ~seof
    /\ ~(Len(sbuf) > 0 /\ split(sbuf, FALSE).some)

\* bufio.Scanner shifts the data to the start of the buffer when space is needed
StartAfterShift ==
    IF sstart > 0 /\ (sstart + Len(sbuf) = slen \/ 2 * sstart > slen)
    THEN 0 ELSE sstart
BufferFull == StartAfterShift + Len(sbuf) = slen
\* ... and doubles a full buffer, up to the maximum token size
LenAfterGrow == IF BufferFull THEN Min(2 * slen, MaxScanTokenSize) ELSE slen
Space == LenAfterGrow - ((IF BufferFull THEN 0 ELSE StartAfterShift) + Len(sbuf))

\* scanner.Scan reads n more bytes from the stream
ScanFill(n) ==
    /\ NeedsRead
    /\ ~(BufferFull /\ slen >= MaxScanTokenSize)
    /\ n >= 1 /\ n <= Space /\ n <= Len(stream) - spos
    /\ sbuf' = sbuf \o SubSeq(stream, spos + 1, spos + n)
    /\ spos' = spos + n
    /\ sstart' = IF BufferFull THEN 0 ELSE StartAfterShift
    /\ slen' = LenAfterGrow
    /\ UNCHANGED <<stream, seof, tokens, events, scpc>>
    /\ UNCHANGED <<mainVars, calls, metaVars>>

\* the read meets the end of the stream
ScanEOF ==
    /\ NeedsRead
    /\ ~(BufferFull /\ slen >= MaxScanTokenSize)
    /\ spos = Len(stream)
    /\ seof' = TRUE
    /\ sstart' = IF BufferFull THEN 0 ELSE StartAfterShift
    /\ slen' = LenAfterGrow
    /\ UNCHANGED <<stream, spos, sbuf, tokens, events, scpc>>
    /\ UNCHANGED <<mainVars, calls, metaVars>>

\* scanner.Scan returns false: no token at the end of the stream, or the
\* token is too long; progress returns
ScanEnd ==
    /\ scpc = "scan"
    /\ \/ seof /\ ~split(sbuf, TRUE).some
       \/ NeedsRead /\ BufferFull /\ slen >= MaxScanTokenSize
    /\ scpc' = "done"
    /\ UNCHANGED <<stream, spos, sbuf, sstart, slen, seof, tokens, events>>
    /\ UNCHANGED <<mainVars, calls, metaVars>>

\* progress is called on a stream (lines 310-337)
InitScan ==
    /\ InitTranscoder
    /\ config = [FfmpegBinPath |-> "ffmpeg", FfprobeBinPath |-> "ffprobe",
                 ProgressEnabled |-> TRUE, Verbose |-> FALSE,
                 OnMetadata |-> "nil"]
    /\ calls = <<>>
    /\ stream \in Streams
    /\ spos = 0
    /\ sbuf = <<>>
    /\ sstart = 0
    /\ slen = BufSize
    /\ seof = FALSE
    /\ tokens = <<>>
    /\ events = <<>>
    /\ scpc = "scan"
    /\ MetaIdle

NextScan ==
    \/ ScanToken
    \/ \E n \in 1..MaxStream : ScanFill(n)
    \/ ScanEOF
    \/ ScanEnd

SpecScan == InitScan /\ [][NextScan]_vars

\* ------------------------------------------ GetMetadata's textual scan
\* A string is the sequence of its pieces: a space, a colon, or a word (a run
\* of characters holding neither a space nor a colon).
\* (lines 266-300)
SP == " "
COLON == ":"
Marker == <<"Metadata", COLON>>

MaxMetaLines == 3
\* size of the bufio.Reader's buffer, in pieces: ReadLine returns a longer
\* line in parts, isPrefix set on all but the last
ReaderSize == 4

MetaLines ==
    { <<SP, SP, "Metadata", COLON>>,
      <<"title", SP, COLON, SP, "My", SP, "Song", SP>>,
      <<SP, "artist", COLON, SP, "Someone">>,
      <<"title", COLON, "Other">>,
      <<COLON, "x">>,
      <<"Duration", COLON, SP, "00", COLON, "01">>,
      <<"Stream">>,
      <<>> }

ErrOutputs == UNION {[1..n -> MetaLines] : n \in 0..MaxMetaLines}

\* strings.TrimLeft(s, ` `)
TrimLeft(s) ==
    IF \A i \in 1..Len(s) : s[i] = SP THEN <<>>
    ELSE SubSeq(s, CHOOSE i \in 1..Len(s) :
                      s[i] # SP /\ \A j \in 1..(i - 1) : s[j] = SP, Len(s))

\* strings.TrimRight(s, ` `)
TrimRight(s) ==
    IF \A i \in 1..Len(s) : s[i] = SP THEN <<>>
    ELSE SubSeq(s, 1, CHOOSE i \in 1..Len(s) :
                      s[i] # SP /\ \A j \in (i + 1)..Len(s) : s[j] = SP)

\* strings.TrimSpace(s): the words hold no white space
TrimSpace(s) == TrimRight(TrimLeft(s))

\* strings.HasPrefix(s, p)
HasPrefix(s, p) == Len(s) >= Len(p) /\ SubSeq(s, 1, Len(p)) = p

\* strings.SplitN(s, `:`, 2)
SplitN(s) ==
    IF IndexByte(s, COLON) = 0 THEN <<s>>
    ELSE <<SubSeq(s, 1, IndexByte(s, COLON) - 1),
           SubSeq(s, IndexByte(s, COLON) + 1, Len(s))>>

\* metadata.Infos[k] = v
SetInfo(m, k, v) == {e \in m : e.key # k} \cup {[key |-> k, value |-> v]}

\* the body of the loop for one whole line (lines 279-293)
ScanLine(has, m, line) ==
    IF ~has
    THEN [has |-> HasPrefix(TrimLeft(line), Marker), infos |-> m]
    ELSE LET parts == SplitN(TrimLeft(line))
         IN  IF Len(parts) = 2 /\ Len(TrimRight(parts[1])) > 0
                /\ TrimRight(parts[1]) # Marker
             THEN [has |-> has,
                   infos |-> SetInfo(m, TrimRight(parts[1]),
                                     TrimSpace(parts[2]))]
             ELSE [has |-> has, infos |-> m]

\* what is left of the line ReadLine is returning; past the last line
\* ReadLine returns no bytes and io.EOF
RestOfLine ==
    IF mline <= Len(errb)
    THEN SubSeq(errb[mline], Len(prefix) + 1, Len(errb[mline]))
    ELSE <<>>

\* reader.ReadLine() returned with isPrefix set (lines 271-278)
MetaPrefix ==
    /\ mpc = "scan"
    /\ Len(RestOfLine) > ReaderSize
    /\ prefix' = prefix \o SubSeq(RestOfLine, 1, ReaderSize)
    /\ UNCHANGED <<errb, mline, hasMetadata, infos, mpc>>
    /\ UNCHANGED <<mainVars, calls, scanVars>>

\* reader.ReadLine() returned the end of a line (lines 271-296)
MetaLine ==
    /\ mpc = "scan"
    /\ mline <= Len(errb)
    /\ Len(RestOfLine) <= ReaderSize
    /\ LET r == ScanLine(hasMetadata, infos, prefix \o RestOfLine)
       IN  /\ hasMetadata' = r.has
           /\ infos' = r.infos
    /\ prefix' = <<>>
    /\ mline' = mline + 1
    /\ UNCHANGED <<errb, mpc>>
    /\ UNCHANGED <<mainVars, calls, scanVars>>

\* reader.ReadLine() returned io.EOF: the empty line is scanned, then break
\* (lines 271-299)
MetaEOF ==
    /\ mpc = "scan"
    /\ mline > Len(errb)
    /\ LET r == ScanLine(hasMetadata, infos, prefix \o RestOfLine)
       IN  /\ hasMetadata' = r.has
           /\ infos' = r.infos
    /\ prefix' = <<>>
    /\ mpc' = "done"
    /\ UNCHANGED <<errb, mline>>
    /\ UNCHANGED <<mainVars, calls, scanVars>>

\* the probe has run and its output decoded (lines 256-270)
InitMeta ==
    /\ InitTranscoder
    /\ config = [FfmpegBinPath |-> "ffmpeg", FfprobeBinPath |-> "ffprobe",
                 ProgressEnabled |-> FALSE, Verbose |-> FALSE,
                 OnMetadata |-> "nil"]
    /\ calls = <<>>
    /\ ScannerIdle
    /\ errb \in ErrOutputs
    /\ mline = 1
    /\ prefix = <<>>
    /\ hasMetadata = FALSE
    /\ infos = {}
    /\ mpc = "scan"

NextMeta == MetaPrefix \/ MetaLine \/ MetaEOF

SpecMeta == InitMeta /\ [][NextMeta]_vars

\* ------------------------------------------- configuration calls, recorded
\* The calls a caller makes on one transcoder before Start, with the history
\* of the Input, Output, WithOptions and WithAdditionalOptions calls.
InitConfig ==
    /\ InitTranscoder
    /\ config = [FfmpegBinPath |-> "ffmpeg", FfprobeBinPath |-> "ffprobe",
                 ProgressEnabled |-> FALSE, Verbose |-> FALSE,
                 OnMetadata |-> "nil"]
    /\ calls = <<>>
    /\ ScannerIdle
    /\ MetaIdle

NextConfig ==
    \/ \E arg \in InputValues : Input(arg) /\ Logged("Input", arg)
    \/ \E arg \in {EmptyOutput, OutputName(Len(output) + 1)} :
            Output(arg) /\ Logged("Output", arg)
    \/ \E o \in OptionValues : WithOptions(o) /\ Logged("WithOptions", o)
    \/ \E o \in OptionValues :
            WithAdditionalOptions(o) /\ Logged("WithAdditionalOptions", o)
    \/ WithContext
    \/ InputPipe
    \/ OutputPipe

SpecConfig == InitConfig /\ [][NextConfig]_vars

\* ============================================================ properties
ErrorEvents == {i \in 1..Len(received) : received[i].kind = "error"}
Launched == procState # "none"
\* Start has got past the argument builder
BuildDone ==
    \/ pc \in {"launch", "wait", "return", "panic"}
    \/ pc = "returned" /\ ret.err \in {"nil", ErrStderrPipe, ErrLaunch, ErrExec}
RECURSIVE QualifyingUpTo(_)
\* indices of the qualifying lines among the first n lines written
QualifyingUpTo(n) ==
    IF n = 0 THEN <<>>
    ELSE IF written[n] THEN Append(QualifyingUpTo(n - 1), n)
    ELSE QualifyingUpTo(n - 1)
RECURSIVE ProgressLines(_)
\* line indices of the progress events among the first n events received
ProgressLines(n) ==
    IF n = 0 THEN <<>>
    ELSE IF received[n].kind = "progress"
         THEN Append(ProgressLines(n - 1), received[n].line)
    ELSE ProgressLines(n - 1)

\* C1: in progress mode, when the process exits with an error, exactly one
\* error event is sent and it is the last event the caller receives before
\* the stream is closed: no progress event is delivered after it.
C1_ErrorEventIsLast ==
    ProgressMode =>
        /\ Cardinality(ErrorEvents) <= 1
        /\ (outClosed /\ exitErr) => Cardinality(ErrorEvents) = 1
        /\ \A i \in ErrorEvents : i = Len(received)

\* C2: in progress mode the event stream is closed only after the scanner
\* task has finished: it is never closed while the scanner still reads or is
\* sending, and no send happens on the closed stream.
C2_CloseOnlyAfterScannerDone ==
    ProgressMode => /\ outClosed => spc = "done"
                    /\ ~crashed

\* C3: in progress mode, once both tasks have ended (or the program has
\* stopped), every qualifying line the process wrote has been delivered to
\* the receiving caller, in order.
C3_NoQualifyingLineLost ==
    (ProgressMode /\ (crashed \/ (spc = "done" /\ wpc = "done")))
        => ProgressLines(Len(received)) = QualifyingUpTo(Len(written))

\* C4: in progress mode, once the process has been launched, Start returns
\* the event stream with a nil error; an execution error is never the error
\* Start returns.
C4_StartReturnsNilError ==
    (ProgressMode /\ Launched /\ pc = "returned")
        => ret = [out |-> "chan", err |-> "nil"]

\* C5: if the context is cancelled while the process runs in progress mode,
\* the process is terminated, the last event the caller receives carries the
\* execution error, and the stream is then closed with no further events.
C5_CancelEndsWithErrorEvent ==
    (ProgressMode /\ killed)
        => /\ procState = "exited" /\ exitErr
           /\ ~crashed
           /\ outClosed => /\ Len(received) >= 1
                           /\ received[Len(received)].kind = "error"

\* C6: a request with more outputs than option-sets, and not exactly one
\* output, makes Start fail with a configuration error before any process
\* (probe or transcoder) is spawned.
C6_CountMismatchFailsBeforeSpawn ==
    (pc # "config" /\ Len(output) > Len(options) /\ Len(output) # 1)
        => /\ pc = "returned"
           /\ ret.err \in ConfigErrors
           /\ spawned = <<>>
           /\ procState = "none"
C6_Witness ==
    /\ pc = "returned"
    /\ ret.err = ErrMismatch
    /\ Len(output) = 2 /\ Len(options) = 1

\* C7: an empty transcoding binary path, an empty input, no output or an
\* empty output locator makes Start fail immediately with an error, return no
\* event stream and spawn no process.
C7_InvalidRequestFailsImmediately ==
    (/\ pc # "config"
     /\ \/ config.FfmpegBinPath = ""
        \/ input = ""
        \/ Len(output) = 0
        \/ \E i \in 1..Len(output) : output[i] = EmptyOutput)
        => /\ pc = "returned"
           /\ ret.out = "nil"
           /\ ret.err \in ConfigErrors
           /\ spawned = <<>>
           /\ procState = "none"
C7_Witness ==
    /\ pc = "returned"
    /\ ret = [out |-> "nil", err |-> ErrEmptyOutput]
    /\ Len(output) = 2 /\ Len(options) = 2
    /\ output[1] # EmptyOutput /\ output[2] = EmptyOutput

\* the option tokens the claim puts before output i (1-based), for n <= m
RECURSIVE ConcatRange(_, _, _)
ConcatRange(seqs, i, j) ==
    IF i > j THEN <<>> ELSE seqs[i] \o ConcatRange(seqs, i + 1, j)
TokensBefore(i) ==
    IF i < Len(output) THEN options[i]
    ELSE ConcatRange(options, Len(output), Len(options))
RECURSIVE OutputBlocks(_)
OutputBlocks(i) ==
    IF i = 0 THEN <<>>
    ELSE OutputBlocks(i - 1) \o TokensBefore(i) \o <<output[i]>>

\* C8: with n outputs and m option-sets, n <= m, the argument list is -i,
\* the input, the globals, then for each output but the last its own
\* option-set followed by the output, and for the last output option-sets
\* n..m in order followed by the output.
C8_SurplusOptionsOnLastOutput ==
    (BuildDone /\ Len(output) <= Len(options))
        => /\ pc # "panic"
           /\ args = <<"-i", input>> \o opts \o OutputBlocks(Len(output))
C8_Witness ==
    /\ BuildDone
    /\ Len(output) = 2 /\ Len(options) = 3
    /\ options[2] # options[3]
    /\ opts # <<>>

\* C9: with exactly one output and no option-set the argument list is
\* exactly -i, the input, the global tokens, the output.
C9_SingleOutputNoOptions ==
    (BuildDone /\ Len(output) = 1 /\ Len(options) = 0)
        => /\ pc # "panic"
           /\ args = <<"-i", input>> \o opts \o <<output[1]>>
C9_Witness ==
    /\ BuildDone
    /\ Len(output) = 1 /\ Len(options) = 0
    /\ opts # <<>>
    /\ Len(args) = 4

\* C10: with progress mode inactive Start returns only after the process
\* has exited, returns the execution error directly, and the stream it
\* returns is absent or already closed; no event is ever delivered.
C10_SyncModeStreamAbsentOrClosed ==
    (~ProgressMode /\ pc = "returned" /\ Launched)
        => /\ procState = "exited"
           /\ ret.err = (IF exitErr THEN ErrExec ELSE "nil")
           /\ ret.out = "nil" \/ outClosed
           /\ received = <<>>

\* C11: on every exit path of Start the transcoder's end of each attached
\* pipe, the input pipe's reader and the output pipe's writer, is closed.
C11_PipesClosedOnEveryExit ==
    pc \in {"returned", "panic"}
        => /\ inputPipe.r # "open"
           /\ outputPipe.w # "open"
C11_Witness ==
    /\ pc = "returned"
    /\ ret.err = ErrExec
    /\ inputPipe.r = "closed"
    /\ outputPipe.w = "closed"

ProbeErrors == {ErrNoFfprobe, ErrProbeRun, ErrProbeJSON}
\* C12: Start runs the metadata probe before it builds or launches anything;
\* a failing probe (a missing probing binary path included) returns the
\* probe's error as it is, a failing metadata observer returns its error, and
\* in both cases no transcoding process is spawned and no stream is returned.
C12_ProbeFirstAndErrorsAbort ==
    /\ (args # <<>> \/ Launched \/ pc \in {"onmeta", "build", "launch", "wait", "return"})
          => /\ spawned # <<>> /\ spawned[1] = "ffprobe"
             /\ metadata = "probed"
    /\ (config.FfprobeBinPath = "" /\ validate = "nil" /\ pc \notin {"config", "probe"})
          => /\ pc = "returned"
             /\ ret = [out |-> "nil", err |-> ErrNoFfprobe]
             /\ spawned = <<>>
    /\ (pc = "returned" /\ ret.err \in ProbeErrors)
          => /\ ret.err = err
             /\ ret.out = "nil"
    /\ (config.OnMetadata = "fail" /\ pc \notin {"config", "probe", "onmeta"}
          /\ validate = "nil" /\ metadata = "probed")
          => /\ pc = "returned"
             /\ ret = [out |-> "nil", err |-> ErrOnMetadata]
    /\ (pc = "returned" /\ ret.err \in ProbeErrors \cup {ErrOnMetadata})
          => /\ procState = "none"
             /\ \A i \in 1..Len(spawned) : spawned[i] # "ffmpeg"
             /\ args = <<>>
C12_Witness ==
    /\ pc = "returned"
    /\ ret = [out |-> "nil", err |-> ErrOnMetadata]
    /\ spawned = <<"ffprobe">>

\* the first terminator, LF or CR, in data (1-based; 0 when there is none)
FirstTerminator(data) ==
    IF \E i \in 1..Len(data) : data[i] \in {LF, CR}
    THEN CHOOSE i \in 1..Len(data) :
            data[i] \in {LF, CR} /\ \A j \in 1..(i - 1) : data[j] \notin {LF, CR}
    ELSE 0
RECURSIVE LogicalLines(_)
\* the logical lines of a stream: each ends at the first LF or CR; a
\* non-empty rest at the end of the stream is the last line
LogicalLines(data) ==
    IF FirstTerminator(data) = 0
    THEN IF data = <<>> THEN <<>> ELSE <<data>>
    ELSE <<SubSeq(data, 1, FirstTerminator(data) - 1)>>
         \o LogicalLines(SubSeq(data, FirstTerminator(data) + 1, Len(data)))

\* C14: the lines the scanner returns are the logical lines of the stream,
\* each ended at the first LF or CR, however the stream is cut into reads,
\* with a non-empty rest at end-of-stream as the last line.
C14_LineEndsAtFirstTerminator ==
    scpc = "done" => tokens = LogicalLines(stream)

RECURSIVE QualifyingCount(_)
\* how many of the given lines contain both time= and bitrate=
QualifyingCount(lines) ==
    IF lines = <<>> THEN 0
    ELSE (IF Contains(Head(lines), "time=") /\ Contains(Head(lines), "bitrate=")
          THEN 1 ELSE 0) + QualifyingCount(Tail(lines))

\* C13: the scanner sends one event for each logical line that contains both
\* time= and bitrate= and none for any other line: when it has ended, the
\* events on the stream are as many as the qualifying logical lines of the
\* diagnostic stream, and each event comes from a qualifying line.
C13_OneEventPerQualifyingLine ==
    /\ \A k \in 1..Len(events) : Qualifies(events[k].line)
    /\ scpc = "done" => Len(events) = QualifyingCount(LogicalLines(stream))

\* ---- C15
\* the left-trimmed line starts with `Metadata:`
IsMarkerLine(line) == HasPrefix(TrimLeft(line), Marker)

FirstMarker(ls) ==
    IF \E i \in 1..Len(ls) : IsMarkerLine(ls[i])
    THEN CHOOSE i \in 1..Len(ls) :
            IsMarkerLine(ls[i]) /\ \A j \in 1..(i - 1) : ~IsMarkerLine(ls[j])
    ELSE 0

KeyOf(line) == TrimRight(SplitN(TrimLeft(line))[1])
ValueOf(line) == TrimSpace(SplitN(TrimLeft(line))[2])

\* lines that are to be recorded: after the first marker line, of the form
\* key: value, with a non-empty key, and not themselves a marker line
TagLines(ls) ==
    {i \in 1..Len(ls) :
        /\ FirstMarker(ls) > 0
        /\ i > FirstMarker(ls)
        /\ IndexByte(ls[i], COLON) > 0
        /\ Len(KeyOf(ls[i])) > 0
        /\ ~IsMarkerLine(ls[i])}

\* C15: when the textual scan is over, the tag mapping holds exactly the
\* `key: value` lines after the first marker line that have a non-empty
\* trimmed key and are not a marker line, each under its trimmed key with its
\* value trimmed on both sides (the last line of a key wins); no line before
\* the marker and no later marker line is recorded.
C15_TagsAreLinesAfterMarker ==
    mpc = "done" =>
        infos = {[key |-> KeyOf(errb[i]), value |-> ValueOf(errb[i])] :
                    i \in {j \in TagLines(errb) :
                            \A k \in TagLines(errb) :
                                KeyOf(errb[k]) = KeyOf(errb[j]) => k <= j}}

\* ---- C16
TasksStarted == spc # "idle" \/ wpc # "idle"

\* C16: within one Start call the cached metadata is written only by the
\* step in which the probe succeeds, which comes before the scanner task and
\* the completion task are started; once they are started the cache is
\* written and no step changes it; a probe that fails leaves the cache as it
\* was.
C16_MetadataWrittenOnceBeforeTasks ==
    [][/\ metadata' # metadata =>
            /\ pc = "probe" /\ pc' = "onmeta"
            /\ metadata = "none" /\ metadata' = "probed"
            /\ ~TasksStarted /\ ~TasksStarted'
       /\ (pc = "probe" /\ pc' # "onmeta") => metadata' = metadata
       /\ TasksStarted' => metadata = "probed" /\ metadata' = "probed"]_vars

C16_Witness == metadata = "probed" /\ spc = "send" /\ wpc = "wait"

\* ---- C17
\* C17: when Verbose is set, with or without ProgressEnabled, the process's
\* diagnostic stream goes to the caller's standard output, neither the
\* scanner task nor the completion task is started, no event is sent on the
\* stream, and Start returns only after the process has exited.
C17_VerboseWins ==
    config.Verbose =>
        /\ Launched => Stderr = "os.Stdout"
        /\ spc = "idle" /\ wpc = "idle"
        /\ received = <<>>
        /\ (pc = "returned" /\ Launched) => procState = "exited"

C17_Witness ==
    /\ config.Verbose /\ config.ProgressEnabled
    /\ pc = "returned" /\ Launched
    /\ written # <<>>

\* ---- C18
\* a step of the scanner task or of the completion task; the caller
\* receives a value as soon as it is offered
TaskStep ==
    \/ ScanRead \/ ScanSend \/ ScanSendClosed
    \/ WaitExit \/ WaitSendErr \/ WaitClose

\* C18: in progress mode, once Start has handed the stream to the caller,
\* the process has exited and the caller receives whatever is sent, the
\* tasks run to their end: when neither task can take a further step, the
\* scanner task and the completion task have both terminated and the stream
\* has been closed by the completion task.
C18_TasksTerminateAndStreamClosed ==
    (ProgressMode /\ pc = "returned" /\ procState = "exited"
        /\ ~ENABLED TaskStep)
        => /\ spc = "done" /\ wpc = "done"
           /\ outClosed
           /\ ~crashed

\* ---- C19
IsOutputName(x) == \E k \in 1..Len(OutputNames) : x = OutputNames[k]

\* C19: a request that has passed validation never makes the argument
\* builder read an option-set at an index that does not exist, whatever the
\* numbers of outputs and of option-sets, and the output locators appear in
\* the argument list once each, in the order they were given.
C19_BuilderInRangeOutputsOnce ==
    /\ pc # "panic"
    /\ pc \in {"build", "launch", "wait", "return"}
            => ~BuildArgs(input, opts, output, options).panic
    /\ BuildDone => SelectSeq(args, IsOutputName) = output

C19_Witness ==
    /\ BuildDone
    /\ Len(output) = 2 /\ Len(options) = 2
    /\ SelectSeq(args, IsOutputName) = <<"out1.mp4", "out2.mp4">>

\* ---- C20
\* the arguments of the calls of h whose name is in names, in call order
RECURSIVE ArgsOf(_, _)
ArgsOf(h, names) ==
    IF h = <<>> THEN <<>>
    ELSE IF h[Len(h)].op \in names
         THEN Append(ArgsOf(SubSeq(h, 1, Len(h) - 1), names), h[Len(h)].arg)
    ELSE ArgsOf(SubSeq(h, 1, Len(h) - 1), names)

\* index of the last call of h with that name, 0 when there is none
LastCall(h, name) ==
    IF \E i \in 1..Len(h) : h[i].op = name
    THEN CHOOSE i \in 1..Len(h) :
            h[i].op = name /\ \A j \in (i + 1)..Len(h) : h[j].op # name
    ELSE 0

\* C20: after any sequence of configuration calls the option-set list is
\* the argument of the most recent WithOptions call followed by the
\* arguments of the WithAdditionalOptions calls made after it, in call order
\* (all of them when WithOptions was never called); the output list is the
\* arguments of the Output calls in call order; the input is the argument of
\* the last Input call. So Output and the option calls each change their own
\* list only.
C20_ListsFollowTheCalls ==
    /\ options =
         ArgsOf(SubSeq(calls, IF LastCall(calls, "WithOptions") = 0 THEN 1
                              ELSE LastCall(calls, "WithOptions"),
                       Len(calls)),
                {"WithOptions", "WithAdditionalOptions"})
    /\ output = ArgsOf(calls, {"Output"})
    /\ input = IF LastCall(calls, "Input") = 0 THEN ""
               ELSE calls[LastCall(calls, "Input")].arg

C20_Witness ==
    /\ Len(calls) = 4
    /\ calls[1].op = "WithAdditionalOptions"
    /\ calls[2].op = "WithOptions"
    /\ calls[3].op = "Output"
    /\ calls[4].op = "WithAdditionalOptions"
    /\ Len(options) = 2 /\ Len(output) = 1

====
